---------------------------- MODULE Spec2Model ----------------------------
(***************************************************************************)
(* Minima search of the flux qubit in the VCHOS basis:                     *)
(* FluxQubitVCHOSFunctions.find_minima and its helper _ramp                *)
(* (scqubits/core/flux_qubit_vchos.py).                                    *)
(*                                                                         *)
(* Phase coordinates returned by the optimizer live on an integer grid on  *)
(* which pi is HalfPeriod grid steps, so that 2*pi is Period steps.  Two   *)
(* grid points that differ are further apart than the deduplicator's       *)
(* tolerance, two equal grid points are within it.  Initial guesses handed *)
(* to the optimizer are kept in milliradians.  The flux bias is kept in    *)
(* hundredths of a flux quantum (50 is flux = 0.5).                        *)
(***************************************************************************)
EXTENDS Integers, Sequences, FiniteSets, TLC

VARIABLES
    flux,                 \* self.flux, in hundredths of a flux quantum
    wells,                \* points at which minimize can end on self.potential
    callsLeft,            \* calls of find_minima the caller still makes
    pc,                   \* position of the caller inside find_minima
    k,                    \* loop variable of "for k in range(1, 4)"
    minima_holder,        \* the local list minima_holder
    new_minima_positive,  \* flag returned by _ramp(k, ...)
    new_minima_negative,  \* flag returned by _ramp(-k, ...)
    memo,                 \* the deterministic optimizer: guess -> result.x seen so far
    guesses,              \* history: guesses handed to minimize in this call
    results,              \* history: result.x of every minimize of this call
    flags,                \* history: flag returned by every _ramp of this call
    trace,                \* history: collaborator calls made by the last step
    failed,               \* history: some minimize of this call reported success = False
    returned,             \* the list returned by the previous call of find_minima
    prevGuesses,          \* history: guesses of the previous call
    prevFailed,           \* history: failed of the previous call
    hasReturned           \* some call of find_minima has returned

vars == <<flux, wells, callsLeft, pc, k, minima_holder, new_minima_positive, new_minima_negative,
          memo, guesses, results, flags, trace, failed, returned, prevGuesses,
          prevFailed, hasReturned>>

-----------------------------------------------------------------------------
(* Bounds of the model *)

\* pi in grid steps
HalfPeriod == 2

Period == 2 * HalfPeriod

\* 2 * np.pi in milliradians (initial guesses only)
TwoPiMilli == 6283

\* result.x values of the optimizer on a potential with seven wells, two of
\* them found outside (-pi, pi]
SevenWells ==
    { <<0, 0>>, <<Period + 1, 0>>, <<0, 1>>, <<1, 1>>, <<-1, 1>>,
      <<-HalfPeriod, HalfPeriod>>, <<HalfPeriod, 0>> }

\* five wells, two of them found outside (-pi, pi]
FiveWells ==
    { <<0, 0>>, <<Period + 1, 0>>, <<0, 1>>, <<1, 1>>, <<-HalfPeriod, HalfPeriod>> }

\* three wells, the one at the origin also found one period away
TwinWells ==
    { <<0, 0>>, <<Period, 0>>, <<1, 1>>, <<-HalfPeriod, HalfPeriod>> }

\* the qubit objects and the number of times find_minima is called on each:
\* flux 0, the default 0.46, the frustration point 0.5 and its image 1.5
Scenarios ==
    { [flux |-> 0,   wells |-> TwinWells,  calls |-> 2],
      [flux |-> 46,  wells |-> FiveWells,  calls |-> 2],
      [flux |-> 50,  wells |-> FiveWells,  calls |-> 2],
      [flux |-> 150, wells |-> TwinWells,  calls |-> 2] }

\* one call of find_minima on a potential with as many wells as the search
\* has seeds
DeepScenarios ==
    { [flux |-> 0,   wells |-> SevenWells, calls |-> 1] }

-----------------------------------------------------------------------------
(* Collaborators inherited from VCHOS *)

\* fold one coordinate into (-pi, pi]
FoldCoordinate(x) ==
    LET m == x % Period
    IN  IF m > HalfPeriod THEN m - Period ELSE m

normalize_minimum_inside_pi_range(p) ==
    <<FoldCoordinate(p[1]), FoldCoordinate(p[2])>>

\* TRUE when every coordinate of a - b is a multiple of 2*pi
SameModuloLattice(a, b) ==
    \A c \in 1..2 : (a[c] - b[c]) % Period = 0

_check_if_new_minima(new_minima, prev_minima) ==
    \A i \in 1..Len(prev_minima) : ~SameModuloLattice(prev_minima[i], new_minima)

-----------------------------------------------------------------------------
(* find_minima and _ramp *)

\* variant: the loop runs one step further
MaxDepthFour == 3 + 1

\* range(1, 4) ends at 3
MaxDepth == 3

\* variant: the frustration point is recognised modulo one flux quantum
AnchorGuessPeriodic(f) ==
    IF f % 100 = 50 THEN <<150, 100>> ELSE <<0, 0>>

AnchorGuess(f) ==
    IF f = 50 THEN <<150, 100>> ELSE <<0, 0>>

RampGuess(kk) ==
    <<(115 * TwoPiMilli * kk) \div 300, (TwoPiMilli * kk) \div 3>>

\* minimize(self.potential, guess): the optimizer is deterministic, a guess
\* it has seen gives the result it gave before; a new guess gives any point
OptimizerReturns(guess, x) ==
    IF guess \in DOMAIN memo THEN x = memo[guess] ELSE x \in wells

Remember(guess, x) ==
    IF guess \in DOMAIN memo THEN memo ELSE memo @@ (guess :> x)

\* variant: a result that did not converge is replaced by the origin
ResultPointIfConverged(result) ==
    IF result.success THEN result.x ELSE <<0, 0>>

\* the point of a scipy result that the search uses
ResultPoint(result) == result.x

\* variant: the list of the previous call is reused
InitialHolderStale(old) == old

InitialHolder(old) == <<>>

\* variant: the anchor is stored as the optimizer returned it
AnchorAppendRaw(holder, x) == Append(holder, x)

AnchorAppend(holder, x) ==
    Append(holder, normalize_minimum_inside_pi_range(x))

\* variant: the deduplicator is handed the normalized point
RampCheckArgumentNormalized(x) == normalize_minimum_inside_pi_range(x)

\* argument handed to self._check_if_new_minima in _ramp
RampCheckArgument(x) == x

\* variant: the result is appended whatever the deduplicator said
RampAppendAlways(holder, x, new_minima) ==
    Append(holder, normalize_minimum_inside_pi_range(x))

\* variant: a new minimum is put in front of the list
RampPrepend(holder, x, new_minima) ==
    IF new_minima
    THEN << normalize_minimum_inside_pi_range(x) >> \o holder
    ELSE holder

\* variant: a new minimum is stored as the optimizer returned it
RampAppendRaw(holder, x, new_minima) ==
    IF new_minima THEN Append(holder, x) ELSE holder

RampAppend(holder, x, new_minima) ==
    IF new_minima
    THEN Append(holder, normalize_minimum_inside_pi_range(x))
    ELSE holder

\* variant: the ramp goes on while either direction is new
ContinueRampEither(positive, negative) == positive \/ negative

\* negation of the break condition
ContinueRamp(positive, negative) == positive /\ negative

InitOf(scenarios) ==
    /\ \E s \in scenarios :
        /\ flux = s.flux
        /\ wells = s.wells
        /\ callsLeft = s.calls
    /\ pc = "idle"
    /\ k = 0
    /\ minima_holder = <<>>
    /\ new_minima_positive = FALSE
    /\ new_minima_negative = FALSE
    /\ memo = <<>>
    /\ guesses = <<>>
    /\ results = <<>>
    /\ flags = <<>>
    /\ trace = <<>>
    /\ failed = FALSE
    /\ returned = <<>>
    /\ prevGuesses = <<>>
    /\ prevFailed = FALSE
    /\ hasReturned = FALSE

Init == InitOf(Scenarios)

InitDeep == InitOf(DeepScenarios)

\* entry of find_minima: minima_holder = []
Call ==
    /\ pc = "idle"
    /\ callsLeft > 0
    /\ callsLeft' = callsLeft - 1
    /\ pc' = "anchor"
    /\ minima_holder' = InitialHolder(minima_holder)
    /\ guesses' = <<>>
    /\ results' = <<>>
    /\ flags' = <<>>
    /\ trace' = <<>>
    /\ failed' = FALSE
    /\ k' = 0
    /\ new_minima_positive' = FALSE
    /\ new_minima_negative' = FALSE
    /\ UNCHANGED <<flux, wells, memo, returned, prevGuesses, prevFailed, hasReturned>>

\* the anchor: choice of the guess, minimize, unconditional append
Anchor ==
    /\ pc = "anchor"
    /\ \E x \in wells, success \in BOOLEAN :
        LET guess == AnchorGuess(flux)
            result == [x |-> x, success |-> success]
            point == ResultPoint(result)
        IN  /\ OptimizerReturns(guess, x)
            /\ memo' = Remember(guess, x)
            /\ minima_holder' = AnchorAppend(minima_holder, point)
            /\ guesses' = Append(guesses, guess)
            /\ results' = Append(results, x)
            /\ failed' = (failed \/ ~success)
            /\ trace' = << <<"minimize", guess>>,
                           <<"normalize", point>>,
                           <<"append", minima_holder'[Len(minima_holder')]>> >>
    /\ k' = 1
    /\ pc' = "positive"
    /\ UNCHANGED <<flux, wells, callsLeft, new_minima_positive, new_minima_negative, flags,
                   returned, prevGuesses, prevFailed, hasReturned>>

\* _ramp(kk, minima_holder) with the optimizer returning x; new is the flag
\* it returns
Ramp(kk, x, success, new) ==
    LET guess == RampGuess(kk)
        result == [x |-> x, success |-> success]
        point == ResultPoint(result)
        argument == RampCheckArgument(point)
    IN  /\ OptimizerReturns(guess, x)
        /\ memo' = Remember(guess, x)
        /\ new = _check_if_new_minima(argument, minima_holder)
        /\ minima_holder' = RampAppend(minima_holder, point, new)
        /\ guesses' = Append(guesses, guess)
        /\ results' = Append(results, x)
        /\ flags' = Append(flags, new)
        /\ failed' = (failed \/ ~success)
        /\ trace' = << <<"minimize", guess>>, <<"check", argument>> >>
                    \o (IF new
                        THEN << <<"normalize", point>>,
                                <<"append", minima_holder'[Len(minima_holder')]>> >>
                        ELSE <<>>)

RampPositive ==
    /\ pc = "positive"
    /\ \E x \in wells, success \in BOOLEAN, new \in BOOLEAN :
        /\ Ramp(k, x, success, new)
        /\ new_minima_positive' = new
    /\ pc' = "negative"
    /\ UNCHANGED <<flux, wells, callsLeft, k, new_minima_negative, returned, prevGuesses,
                   prevFailed, hasReturned>>

\* the negative ramp, the break test and the loop header
RampNegative ==
    /\ pc = "negative"
    /\ \E x \in wells, success \in BOOLEAN, new \in BOOLEAN :
        /\ Ramp(-k, x, success, new)
        /\ new_minima_negative' = new
    /\ IF ContinueRamp(new_minima_positive, new_minima_negative') /\ k < MaxDepth
       THEN k' = k + 1 /\ pc' = "positive"
       ELSE k' = k /\ pc' = "done"
    /\ UNCHANGED <<flux, wells, callsLeft, new_minima_positive, returned, prevGuesses,
                   prevFailed, hasReturned>>

\* return minima_holder
Return ==
    /\ pc = "done"
    /\ returned' = minima_holder
    /\ prevGuesses' = guesses
    /\ prevFailed' = failed
    /\ hasReturned' = TRUE
    /\ pc' = "idle"
    /\ UNCHANGED <<flux, wells, callsLeft, k, minima_holder, new_minima_positive,
                   new_minima_negative, memo, guesses, results, flags, trace,
                   failed>>

Next ==
    \/ Call
    \/ Anchor
    \/ RampPositive
    \/ RampNegative
    \/ Return

Spec == Init /\ [][Next]_vars

SpecDeep == InitDeep /\ [][Next]_vars

-----------------------------------------------------------------------------
(* Vocabulary of the properties *)

Last(s) == s[Len(s)]

Range(s) == { s[i] : i \in 1..Len(s) }

\* the anchor of the current call has been appended
Anchored == pc \in {"positive", "negative", "done"}

\* the last step taken was a call of _ramp
AfterRamp == Anchored /\ flags # <<>>

\* the point is inside the fundamental domain (-pi, pi] x (-pi, pi]
Canonical(p) ==
    \A c \in 1..2 : -HalfPeriod < p[c] /\ p[c] <= HalfPeriod

\* ramp step j has been started: its positive seed has been evaluated
Started(j) ==
    \E i \in 1..Len(guesses) :
        guesses[i] = <<(115 * TwoPiMilli * j) \div 300, (TwoPiMilli * j) \div 3>>

\* position in results of the n-th accepted result: 1 is the anchor, ramp
\* call i (result i + 1) is accepted when flags[i] holds
AcceptedPositions == {1} \cup { i + 1 : i \in { j \in 1..Len(flags) : flags[j] } }

PositionOfAccepted(n) ==
    CHOOSE i \in AcceptedPositions :
        Cardinality({ j \in AcceptedPositions : j < i }) = n - 1

-----------------------------------------------------------------------------
\* C1: once the anchor step has run, the list is non-empty and its first
\* element is the normalized optimizer result of the anchor seed; the anchor
\* step makes no call of the deduplicator, and no later ramp step removes
\* the anchor or moves it away from the first place; a returned list is
\* non-empty and starts with the anchor.
AnchorAlwaysFirst ==
    /\ Anchored =>
        /\ Len(minima_holder) >= 1
        /\ minima_holder[1] = normalize_minimum_inside_pi_range(results[1])
    /\ (pc = "positive" /\ k = 1) =>
        /\ \A i \in 1..Len(trace) : trace[i][1] # "check"
        /\ minima_holder = << normalize_minimum_inside_pi_range(results[1]) >>
    /\ hasReturned => Len(returned) >= 1
    /\ (hasReturned /\ pc = "idle") =>
        returned[1] = normalize_minimum_inside_pi_range(results[1])

\* the anchor was found outside (-pi, pi], a ramp seed found the same point
\* again, and the search returned at least three minima
AnchorWitness ==
    /\ pc = "idle" /\ hasReturned
    /\ Len(returned) >= 3
    /\ results[1] # normalize_minimum_inside_pi_range(results[1])
    /\ \E i \in 2..Len(results) : results[i] = results[1]

\* C2: no two elements of the list, at any moment of the search and in the
\* returned list, are reported as duplicates of each other by the
\* deduplicator.
NoDuplicateMinima ==
    /\ \A i, j \in 1..Len(minima_holder) :
        i # j => _check_if_new_minima(minima_holder[i], << minima_holder[j] >>)
    /\ \A i, j \in 1..Len(returned) :
        i # j => _check_if_new_minima(returned[i], << returned[j] >>)

\* the positive ramp of step 1 found a new point outside (-pi, pi] and the
\* negative ramp of the same step found that point again and was rejected
DuplicateRejectedWitness ==
    /\ pc = "done"
    /\ flags = <<TRUE, FALSE>>
    /\ results[3] = results[2]
    /\ results[2] # normalize_minimum_inside_pi_range(results[2])

BoundedSearch ==
    /\ Len(guesses) <= 7
    /\ \A i, j \in 1..Len(guesses) : i # j => guesses[i] # guesses[j]
    /\ \A i \in 1..Len(guesses) :
        \/ i = 1 /\ guesses[i] \in { <<0, 0>>, <<150, 100>> }
        \/ \E j \in {-3, -2, -1, 1, 2, 3} :
            guesses[i] = <<(115 * TwoPiMilli * j) \div 300, (TwoPiMilli * j) \div 3>>
    /\ Anchored => (1 <= Len(minima_holder) /\ Len(minima_holder) <= 7)
    /\ hasReturned => (1 <= Len(returned) /\ Len(returned) <= 7)
    /\ pc \in {"positive", "negative"} => k <= 3
    /\ pc \in {"anchor", "positive", "negative", "done"} => ENABLED Next

\* all three steps ran and every one of the seven seeds found a new minimum
FullDepthWitness ==
    /\ pc = "done"
    /\ Len(guesses) = 7
    /\ Len(minima_holder) = 7

\* C5: the list holds the normalized accepted results in the order in which
\* their seeds were evaluated (anchor, +1, -1, +2, -2, +3, -3), and every
\* step of a search leaves the elements already in the list where they are
\* and adds at most one element at the end.
DiscoveryOrderState ==
    Anchored =>
        /\ Len(minima_holder) = Cardinality(AcceptedPositions)
        /\ \A n \in 1..Len(minima_holder) :
            minima_holder[n] =
                normalize_minimum_inside_pi_range(results[PositionOfAccepted(n)])
        /\ \A i \in 1..Len(guesses) :
            guesses[i] =
                IF i = 1 THEN guesses[1]
                ELSE IF i % 2 = 0
                     THEN <<(115 * TwoPiMilli * (i \div 2)) \div 300,
                            (TwoPiMilli * (i \div 2)) \div 3>>
                     ELSE <<(115 * TwoPiMilli * (-(i \div 2))) \div 300,
                            (TwoPiMilli * (-(i \div 2))) \div 3>>

AppendOnlyStep ==
    (Anchored /\ pc' # "anchor") =>
        /\ Len(minima_holder') \in { Len(minima_holder), Len(minima_holder) + 1 }
        /\ SubSeq(minima_holder', 1, Len(minima_holder)) = minima_holder

DiscoveryOrder == []DiscoveryOrderState /\ [][AppendOnlyStep]_vars

\* step 2 accepted the result of its negative seed only: the list holds the
\* anchor, both results of step 1 and the result of seed -2
DiscoveryOrderWitness ==
    /\ pc = "done"
    /\ flags = <<TRUE, TRUE, FALSE, TRUE>>
    /\ Len(minima_holder) = 4
    /\ minima_holder[4] = normalize_minimum_inside_pi_range(results[5])

\* C6: a call starts from the empty list; a second call on the same qubit
\* object ends with the list the first call returned, after evaluating the
\* same seeds; and no step of a call changes the device parameters or the
\* list an earlier call returned.
DeterminismState ==
    /\ pc = "anchor" => minima_holder = <<>>
    /\ (pc = "done" /\ hasReturned) =>
        /\ minima_holder = returned
        /\ guesses = prevGuesses

ParametersUntouchedStep ==
    /\ flux' = flux
    /\ wells' = wells
    /\ pc # "done" => returned' = returned

Determinism == []DeterminismState /\ [][ParametersUntouchedStep]_vars

\* a second call went through all three steps and ended with five minima
SecondCallWitness ==
    /\ pc = "done" /\ hasReturned
    /\ Len(guesses) = 7
    /\ Len(minima_holder) = 5

\* C7: the anchor guess is (0.15, 0.10) exactly when flux = 0.5 and (0, 0)
\* for every other flux; the guess of every later optimizer call is the ramp
\* seed of its position, whatever the flux.
AnchorSeedSelection ==
    guesses # <<>> =>
        /\ (flux = 50) <=> (guesses[1] = <<150, 100>>)
        /\ (flux # 50) <=> (guesses[1] = <<0, 0>>)
        /\ \A i \in 2..Len(guesses) :
            guesses[i] = RampGuess(IF i % 2 = 0 THEN i \div 2 ELSE -(i \div 2))

\* a search at flux 1.5 started from (0, 0) and went on to the ramp
PeriodicImageWitness ==
    /\ pc = "done"
    /\ flux = 150
    /\ guesses[1] = <<0, 0>>
    /\ Len(guesses) >= 5

\* C8: every element of the list is the normalizer's output for an optimizer
\* result of the call, and so is every element of the list a call returns.
OnlyCanonicalStored ==
    /\ \A i \in 1..Len(minima_holder) :
        \E j \in 1..Len(results) :
            minima_holder[i] = normalize_minimum_inside_pi_range(results[j])
    /\ pc = "idle" =>
        \A i \in 1..Len(returned) :
            \E j \in 1..Len(results) :
                returned[i] = normalize_minimum_inside_pi_range(results[j])

\* a ramp seed found a new minimum outside (-pi, pi] and it was accepted
FoldedRampResultWitness ==
    /\ pc = "done"
    /\ \E i \in 1..Len(flags) :
        /\ flags[i]
        /\ ~Canonical(results[i + 1])

\* C9, as stated: the point handed to the deduplicator by a ramp step is the
\* normalized optimizer result.
DeduplicatorGetsNormalizedPoint ==
    AfterRamp =>
        /\ trace[2][1] = "check"
        /\ trace[2][2] = normalize_minimum_inside_pi_range(Last(results))

\* C9, amended: a ramp step runs the optimizer, hands the optimizer's result
\* as returned (not normalized) to the deduplicator and, exactly when the
\* deduplicator reports it new, normalizes it and appends the normalized
\* point; the flag returned is true exactly when the list grew by one.
RampStepOrder ==
    /\ AfterRamp =>
        /\ trace[1] = <<"minimize", Last(guesses)>>
        /\ trace[2] = <<"check", Last(results)>>
        /\ Last(flags) =>
            /\ Len(trace) = 4
            /\ trace[3] = <<"normalize", Last(results)>>
            /\ trace[4] = <<"append", normalize_minimum_inside_pi_range(Last(results))>>
            /\ Last(minima_holder) = normalize_minimum_inside_pi_range(Last(results))
        /\ ~Last(flags) => Len(trace) = 2
    /\ Anchored =>
        Len(minima_holder) = 1 + Cardinality({ i \in 1..Len(flags) : flags[i] })

\* the last ramp step found a new minimum outside (-pi, pi]
RampStepWitness ==
    /\ AfterRamp
    /\ Last(flags)
    /\ ~Canonical(Last(results))
    /\ Len(minima_holder) >= 3

\* C10: a call in which some optimizer call reported failure and a call on
\* the same object in which none did (or the other way round) evaluate the
\* same seeds and end with the same list; every call that has started
\* reaches its return with the anchor in the list.
ConvergenceStatusIgnored ==
    /\ (pc = "done" /\ hasReturned /\ failed # prevFailed) =>
        /\ minima_holder = returned
        /\ guesses = prevGuesses
    /\ (pc = "done" /\ failed) => Len(minima_holder) >= 1
    /\ pc \in {"idle", "anchor", "positive", "negative", "done"}

\* the first call saw no failure, the second call saw one and still ended
\* with the same three or more minima
FailureIgnoredWitness ==
    /\ pc = "done" /\ hasReturned
    /\ failed /\ ~prevFailed
    /\ Len(minima_holder) >= 3

=============================================================================
